---- MODULE Spec2Model ----
(***************************************************************************)
(* A model of src/neat/chromosome.py: the NEAT chromosome (class           *)
(* Chromosome, for recurrent networks) and its feedforward specialisation  *)
(* (class FFChromosome).                                                   *)
(*                                                                         *)
(* The state is the process-wide id counter Chromosome.__next_id, the      *)
(* configuration object shared by the chromosomes, and the chromosomes     *)
(* built so far.  One action stands for one public operation: the three    *)
(* factories, mutate(), crossover(), distance(), and the write of the      *)
(* fitness / species_id slots by the species manager.                      *)
(*                                                                         *)
(* Encodings.  Reals are integers: a weight is a member of WeightValues,   *)
(* probabilities and the draws of random.random() are counted in halves    *)
(* (a draw is 0 or 1, a probability 0, 1 or 2).  None is NoneValue,        *)
(* which is below every fitness (as None is below every number in          *)
(* Python 2, the language of the source).  A raised exception is the       *)
(* string in last.err.  The node genes' bias and response, which no        *)
(* structural operation reads, are left out.                               *)
(***************************************************************************)
EXTENDS Integers, Sequences, FiniteSets, TLC

VARIABLES next_id, config, pop, ops, last

vars == <<next_id, config, pop, ops, last>>

-----------------------------------------------------------------------------
(* Bounds and input domains *)

\* operations in a behaviour of a population, and of a single chromosome
MaxOps == 5
MaxMutateOps == 4
\* chromosomes built by the factories; one more place is left for a child
MaxFounders == 2
MaxPop == MaxFounders + 1
\* hidden nodes of a chromosome
MaxHidden == 2

NoneValue == 0

\* <<input_nodes, output_nodes>>
Shapes == {<<1, 1>>}
MutateShapes == {<<1, 1>>, <<2, 1>>, <<1, 2>>}
AnyShapes == {0, 1, 2} \X {0, 1, 2}
WeightValues == {1, 2}
FitnessValues == {1, 2}
SpeciesValues == {1}
SpeciesChoices == {1, 2}
\* random.random(), in halves: 0 and 1/2; a probability is in halves too
Draws == {0, 1}
\* <<prob_addnode, prob_addconn, prob_deleteconn>>
DefaultProbs == <<1, 1, 1>>
ProbChoices == {<<1, 1, 1>>, <<2, 0, 0>>, <<0, 2, 1>>}
\* <<excess_coefficient, disjoint_coefficient, weight_coefficient>>
DefaultCoefs == <<2, 1, 1>>
CoefChoices == {<<1, 1, 2>>, <<2, 1, 1>>, <<1, 2, 1>>}
Classes == {"Chromosome", "FFChromosome"}

-----------------------------------------------------------------------------
(* Python helpers *)

Min(a, b) == IF a < b THEN a ELSE b
Max(a, b) == IF a > b THEN a ELSE b

\* s[a:]
SliceFrom(s, a) ==
    LET n == Len(s)
        st == IF a < 0 THEN Max(n + a, 0) ELSE Min(a, n)
    IN  SubSeq(s, st + 1, n)

\* s[:b]
SliceTo(s, b) ==
    LET n == Len(s)
        en == IF b < 0 THEN Max(n + b, 0) ELSE Min(b, n)
    IN  SubSeq(s, 1, en)

\* the set of a list's elements
Range(s) == {s[i] : i \in DOMAIN s}

\* list.index(x): the first position (0-based); -1 stands for ValueError
IndexOf(s, x) ==
    IF \E i \in DOMAIN s : s[i] = x
    THEN (CHOOSE i \in DOMAIN s : s[i] = x /\ \A j \in 1 .. (i - 1) : s[j] # x) - 1
    ELSE -1

\* list.insert(pos, x) for 0 <= pos <= len
InsertAt(s, pos, x) == SubSeq(s, 1, pos) \o <<x>> \o SubSeq(s, pos + 1, Len(s))

\* sum(range(n + 1))
SumRange(n) == IF n < 0 THEN 0 ELSE (n * (n + 1)) \div 2

EmptyConns == [k \in {} |-> 0]

\* d[key] = gene
Put(d, key, gene) == [k \in (DOMAIN d) \cup {key} |-> IF k = key THEN gene ELSE d[k]]

\* del d[key]
Del(d, key) == [k \in (DOMAIN d) \ {key} |-> d[k]]

-----------------------------------------------------------------------------
(* Gene types (genome module, not part of chromosome.py) *)

NodeGene(id, type) == [id |-> id, type |-> type]

ConnectionGene(in, out, weight, enabled) ==
    [innodeid |-> in, outnodeid |-> out, weight |-> weight, enabled |-> enabled]

\* ConnectionGene.key
Key(cg) == <<cg.innodeid, cg.outnodeid>>

\* ConnectionGene.split(node_id): the gene is disabled, two genes replace it
SplitDisabled(cg) == [cg EXCEPT !.enabled = FALSE]
SplitFirst(cg, node_id) == ConnectionGene(cg.innodeid, node_id, 1, TRUE)
SplitSecond(cg, node_id) == ConnectionGene(node_id, cg.outnodeid, cg.weight, TRUE)

\* ConnectionGene.get_child(other): weight and enabled each from either parent
ConnChildren(cg1, cg2) ==
    {ConnectionGene(cg1.innodeid, cg1.outnodeid, w, e) :
        w \in {cg1.weight, cg2.weight}, e \in {cg1.enabled, cg2.enabled}}

\* NodeGene.get_child(other): identity and role of the first, parameters mixed
NodeChild(ng1, ng2) == NodeGene(ng1.id, ng1.type)

\* the genes' natural ordering: by weight
GeneGreater(cg1, cg2) == cg1.weight > cg2.weight

-----------------------------------------------------------------------------
(* Chromosome.__init__ and the factories *)

\* Chromosome.__get_next_id: the value of the counter after a call
get_next_id_Stuck(id) == id
get_next_id(id) == id + 1

\* Chromosome.__init__ / FFChromosome.__init__, given the id drawn from the counter
NewChromosome(cls, id, parent1_id, parent2_id) ==
    [ ID          |-> id,
      cls         |-> cls,
      num_inputs  |-> config.input_nodes,
      num_outputs |-> config.output_nodes,
      conn_genes  |-> EmptyConns,
      node_genes  |-> <<>>,
      node_order  |-> <<>>,
      fitness     |-> NoneValue,
      species_id  |-> NoneValue,
      parent1_id  |-> parent1_id,
      parent2_id  |-> parent2_id ]

\* the node genes create_unconnected appends: range(n) is empty for n <= 0
FounderNodes ==
    LET ni == Max(config.input_nodes, 0)
        no == Max(config.output_nodes, 0)
    IN  [k \in 1 .. (ni + no) |-> NodeGene(k, IF k <= ni THEN "INPUT" ELSE "OUTPUT")]

create_unconnected(cls, id) ==
    [NewChromosome(cls, id, 0, 0) EXCEPT !.node_genes = FounderNodes]

OutputIds(c) == {c.node_genes[k].id : k \in {j \in DOMAIN c.node_genes : c.node_genes[j].type = "OUTPUT"}}
InputSliceIds_AllNodes(c) == {ng.id : ng \in Range(c.node_genes)}
InputSliceIds(c) == {ng.id : ng \in Range(SliceTo(c.node_genes, config.input_nodes))}

\* the outcomes of create_minimally_connected: [c, err]
create_minimally_connected(cls, id) ==
    LET c == create_unconnected(cls, id)
        outs == OutputIds(c)
        ins == InputSliceIds(c)
    IN  IF outs # {} /\ ins = {}
        THEN {[c |-> c, err |-> "IndexError"]}
        ELSE {[c |-> [c EXCEPT !.conn_genes =
                        [k \in {<<pick[o][1], o>> : o \in outs} |->
                            ConnectionGene(k[1], k[2], pick[k[2]][2], TRUE)]],
               err |-> "none"] : pick \in [outs -> ins \X WeightValues]}

\* the outcomes of create_fully_connected: [c, err]
create_fully_connected_Swapped(cls, id) ==
    LET c == create_unconnected(cls, id)
        keys == InputSliceIds(c) \X OutputIds(c)
    IN  {[c |-> [c EXCEPT !.conn_genes =
                    [k \in keys |-> ConnectionGene(k[2], k[1], w[k], TRUE)]],
          err |-> "none"] : w \in [keys -> WeightValues]}
create_fully_connected(cls, id) ==
    LET c == create_unconnected(cls, id)
        keys == InputSliceIds(c) \X OutputIds(c)
    IN  {[c |-> [c EXCEPT !.conn_genes =
                    [k \in keys |-> ConnectionGene(k[1], k[2], w[k], TRUE)]],
          err |-> "none"] : w \in [keys -> WeightValues]}

-----------------------------------------------------------------------------
(* Structural mutations *)

NumHiddenGenes(c) == Cardinality({k \in DOMAIN c.node_genes : c.node_genes[k].type = "HIDDEN"})

\* the id of the node gene add-node creates
NewNodeId_OffByOne(c) == Len(c.node_genes)
NewNodeId(c) == Len(c.node_genes) + 1

\* Chromosome._mutate_add_node: the outcomes [c, err, ng, split]
Base_mutate_add_node_OneGene(c) ==
    IF DOMAIN c.conn_genes = {}
    THEN {[c |-> c, err |-> "IndexError", ng |-> 0, split |-> <<0, 0>>]}
    ELSE {LET conn_to_split == c.conn_genes[key]
              ng == NodeGene(NewNodeId(c), "HIDDEN")
              new_conn1 == SplitFirst(conn_to_split, ng.id)
              genes == Put(Put(c.conn_genes, key, SplitDisabled(conn_to_split)),
                           Key(new_conn1), new_conn1)
          IN  [c |-> [c EXCEPT !.node_genes = Append(@, ng), !.conn_genes = genes],
               err |-> "none", ng |-> ng.id, split |-> Key(conn_to_split)]
          : key \in DOMAIN c.conn_genes}
Base_mutate_add_node(c) ==
    IF DOMAIN c.conn_genes = {}
    THEN {[c |-> c, err |-> "IndexError", ng |-> 0, split |-> <<0, 0>>]}
    ELSE {LET conn_to_split == c.conn_genes[key]
              ng == NodeGene(NewNodeId(c), "HIDDEN")
              new_conn1 == SplitFirst(conn_to_split, ng.id)
              new_conn2 == SplitSecond(conn_to_split, ng.id)
              genes == Put(Put(Put(c.conn_genes, key, SplitDisabled(conn_to_split)),
                               Key(new_conn1), new_conn1),
                           Key(new_conn2), new_conn2)
          IN  [c |-> [c EXCEPT !.node_genes = Append(@, ng), !.conn_genes = genes],
               err |-> "none", ng |-> ng.id, split |-> Key(conn_to_split)]
          : key \in DOMAIN c.conn_genes}

\* the type of self.node_genes[id - 1]; "IndexError" when there is no such gene
TypeAt(c, id) ==
    IF id \in DOMAIN c.node_genes THEN c.node_genes[id].type ELSE "IndexError"

\* the lowest position of the new node in the node order
AddNodeMini_AtSource(c, innodeid) ==
    IF TypeAt(c, innodeid) = "HIDDEN" THEN IndexOf(c.node_order, innodeid) ELSE 0
AddNodeMini(c, innodeid) ==
    IF TypeAt(c, innodeid) = "HIDDEN" THEN IndexOf(c.node_order, innodeid) + 1 ELSE 0

\* the highest position of the new node in the node order
AddNodeMaxi(c, outnodeid) ==
    IF TypeAt(c, outnodeid) = "HIDDEN" THEN IndexOf(c.node_order, outnodeid) ELSE Len(c.node_order)

\* FFChromosome._mutate_add_node: the outcomes [c, err]
FF_mutate_add_node(c) ==
    UNION {IF b.err # "none" THEN {[c |-> b.c, err |-> b.err]}
           ELSE LET s == b.split
                    inT == TypeAt(b.c, s[1])
                    outT == TypeAt(b.c, s[2])
                    mini == AddNodeMini(b.c, s[1])
                    maxi == AddNodeMaxi(b.c, s[2])
                IN  IF inT = "IndexError" \/ outT = "IndexError"
                    THEN {[c |-> b.c, err |-> "IndexError"]}
                    ELSE IF (inT = "HIDDEN" /\ mini = 0) \/ (outT = "HIDDEN" /\ maxi = -1)
                            \/ mini > maxi
                    THEN {[c |-> b.c, err |-> "ValueError"]}
                    ELSE {LET c2 == [b.c EXCEPT !.node_order = InsertAt(@, pos, b.ng)]
                          IN  [c |-> c2,
                               err |-> IF Len(c2.node_order) = NumHiddenGenes(c2)
                                       THEN "none" ELSE "AssertionError"]
                          : pos \in mini .. maxi}
           : b \in Base_mutate_add_node(c)}

\* the pairs a double loop visits, in order: for i in ins: for o in outs
PairsInOrder(ins, outs) ==
    LET m == Len(outs)
    IN  [k \in 1 .. (Len(ins) * m) |->
            <<ins[((k - 1) \div m) + 1].id, outs[((k - 1) % m) + 1].id>>]

\* the free pair that stops the loop at count == n, or <<>> when the loop runs out
NthFree_NthPair(pairs, keys, n) ==
    IF n + 1 \in DOMAIN pairs THEN <<pairs[n + 1]>> ELSE <<>>
NthFree(pairs, keys, n) ==
    LET IsFree(p) == p \notin keys
        free == SelectSeq(pairs, IsFree)
    IN  IF n + 1 \in DOMAIN free THEN <<free[n + 1]>> ELSE <<>>

\* Chromosome._mutate_add_connection: the outcomes [c, err]
Base_mutate_add_connection(c) ==
    LET total_possible_conns == (Len(c.node_genes) - c.num_inputs) * Len(c.node_genes)
        remaining_conns == total_possible_conns - Cardinality(DOMAIN c.conn_genes)
        pairs == PairsInOrder(c.node_genes, SliceFrom(c.node_genes, c.num_inputs))
    IN  IF remaining_conns > 0
        THEN {LET hit == NthFree(pairs, DOMAIN c.conn_genes, n)
              IN  IF hit = <<>> THEN [c |-> c, err |-> "none"]
                  ELSE [c |-> [c EXCEPT !.conn_genes =
                                 Put(@, hit[1], ConnectionGene(hit[1][1], hit[1][2], w, TRUE))],
                        err |-> "none"]
              : n \in 0 .. (remaining_conns - 1), w \in WeightValues}
        ELSE {[c |-> c, err |-> "none"]}

\* FFChromosome.__is_connection_feedforward: "TRUE", "FALSE", or "ValueError"
\* when list.index is asked for a node that is not in the node order
is_connection_feedforward(c, in_id, out_id) ==
    IF TypeAt(c, in_id) = "INPUT" \/ TypeAt(c, out_id) = "OUTPUT" THEN "TRUE"
    ELSE IF IndexOf(c.node_order, in_id) = -1 \/ IndexOf(c.node_order, out_id) = -1
         THEN "ValueError"
    ELSE IF IndexOf(c.node_order, in_id) < IndexOf(c.node_order, out_id) THEN "TRUE"
    ELSE "FALSE"

\* the sources FFChromosome._mutate_add_connection enumerates
FFSources_InputsOnly(c) == SliceTo(c.node_genes, c.num_inputs)
FFSources(c) ==
    SliceTo(c.node_genes, c.num_inputs) \o SliceFrom(c.node_genes, -Len(c.node_order))

\* the number of draws FFChromosome._mutate_add_connection chooses among
FFRemaining_Total(c) ==
    LET num_hidden == Len(c.node_order)
        num_output == Len(c.node_genes) - c.num_inputs - num_hidden
    IN  (num_hidden + num_output) * (c.num_inputs + num_hidden) - SumRange(num_hidden)
FFRemaining(c) ==
    LET num_hidden == Len(c.node_order)
        num_output == Len(c.node_genes) - c.num_inputs - num_hidden
        total_possible_conns ==
            (num_hidden + num_output) * (c.num_inputs + num_hidden) - SumRange(num_hidden)
    IN  total_possible_conns - Cardinality(DOMAIN c.conn_genes)

\* what the loop of FFChromosome._mutate_add_connection does with draw n:
\* <<"add", pair>>, <<"raise">> or <<"end">>
FFLoop(c, n) ==
    LET pairs == PairsInOrder(FFSources(c), SliceFrom(c.node_genes, c.num_inputs))
        Class(p) == IF p \in DOMAIN c.conn_genes THEN "skip"
                    ELSE LET ff == is_connection_feedforward(c, p[1], p[2])
                         IN  IF ff = "TRUE" THEN "free"
                             ELSE IF ff = "FALSE" THEN "skip" ELSE "raise"
        IsFree(k) == Class(pairs[k]) = "free"
        IsRaise(k) == Class(pairs[k]) = "raise"
        free == SelectSeq([k \in DOMAIN pairs |-> k], IsFree)
        raise == SelectSeq([k \in DOMAIN pairs |-> k], IsRaise)
    IN  IF n + 1 \in DOMAIN free /\ (raise = <<>> \/ free[n + 1] < raise[1])
        THEN <<"add", pairs[free[n + 1]]>>
        ELSE IF raise # <<>> THEN <<"raise">> ELSE <<"end">>

\* FFChromosome._mutate_add_connection: the outcomes [c, err]
FF_mutate_add_connection(c) ==
    IF FFRemaining(c) > 0
    THEN {LET r == FFLoop(c, n)
          IN  IF r[1] = "add"
              THEN [c |-> [c EXCEPT !.conn_genes =
                             Put(@, r[2], ConnectionGene(r[2][1], r[2][2], w, TRUE))],
                    err |-> "none"]
              ELSE [c |-> c, err |-> IF r[1] = "raise" THEN "ValueError" ELSE "none"]
          : n \in 0 .. (FFRemaining(c) - 1), w \in WeightValues}
    ELSE {[c |-> c, err |-> "none"]}

\* Chromosome._mutate_delete_connection: the outcomes [c, err]
mutate_delete_connection_DownToNone(c) ==
    IF Cardinality(DOMAIN c.conn_genes) > 0
    THEN {[c |-> [c EXCEPT !.conn_genes = Del(@, key)], err |-> "none"]
          : key \in DOMAIN c.conn_genes}
    ELSE {[c |-> c, err |-> "none"]}
mutate_delete_connection(c) ==
    IF Cardinality(DOMAIN c.conn_genes) > 1
    THEN {[c |-> [c EXCEPT !.conn_genes = Del(@, key)], err |-> "none"]
          : key \in DOMAIN c.conn_genes}
    ELSE {[c |-> c, err |-> "none"]}

\* the else branch of mutate: cg.mutate(config) on every connection gene
\* (ng.mutate changes only bias and response)
mutate_weights(c) ==
    {[c |-> [c EXCEPT !.conn_genes = [k \in DOMAIN @ |-> [@[k] EXCEPT !.weight = w[k]]]],
      err |-> "none"] : w \in [DOMAIN c.conn_genes -> WeightValues]}

\* the branch mutate takes: every test calls random.random() anew
MutateBranch_SharedDraw(r1, r2, r3) ==
    IF r1 < config.prob_addnode THEN "add_node"
    ELSE IF r1 < config.prob_addconn THEN "add_connection"
    ELSE IF r1 < config.prob_deleteconn THEN "delete_connection"
    ELSE "weights"
MutateBranch(r1, r2, r3) ==
    IF r1 < config.prob_addnode THEN "add_node"
    ELSE IF r2 < config.prob_addconn THEN "add_connection"
    ELSE IF r3 < config.prob_deleteconn THEN "delete_connection"
    ELSE "weights"

\* the draws mutate makes before it takes its branch
MutateDraws(r1, r2, r3) ==
    IF r1 < config.prob_addnode THEN <<r1>>
    ELSE IF r2 < config.prob_addconn THEN <<r1, r2>>
    ELSE <<r1, r2, r3>>

\* the method the class of c dispatches to
mutate_add_node(c) ==
    IF c.cls = "FFChromosome" THEN FF_mutate_add_node(c)
    ELSE {[c |-> b.c, err |-> b.err] : b \in Base_mutate_add_node(c)}

mutate_add_connection(c) ==
    IF c.cls = "FFChromosome" THEN FF_mutate_add_connection(c)
    ELSE Base_mutate_add_connection(c)

\* Chromosome.mutate: the outcomes [c, err] of the branch taken
mutate(c, branch) ==
    CASE branch = "add_node" -> mutate_add_node(c)
      [] branch = "add_connection" -> mutate_add_connection(c)
      [] branch = "delete_connection" -> mutate_delete_connection(c)
      [] OTHER -> mutate_weights(c)

-----------------------------------------------------------------------------
(* Crossover *)

\* ConnectionGene.is_same_innov: innovation numbers are global, one per key
is_same_innov(cg2, cg1) == Key(cg2) = Key(cg1)

\* the parent crossover treats as the fitter one
FitterIsSelf_OnTie(self, other) == self.fitness >= other.fitness
FitterIsSelf(self, other) == self.fitness > other.fitness

\* the connection genes a child can inherit: one dictionary per run of the coins
InheritConnGenes_BothParents(parent1, parent2) ==
    {[K \in (DOMAIN parent1.conn_genes) \cup (DOMAIN parent2.conn_genes) |->
        IF K \in DOMAIN parent1.conn_genes THEN parent1.conn_genes[K]
        ELSE parent2.conn_genes[K]]}
InheritConnGenes(parent1, parent2) ==
    LET genes1 == {parent1.conn_genes[k] : k \in DOMAIN parent1.conn_genes}
        keys == {Key(cg1) : cg1 \in genes1}
        Gene1(K) == CHOOSE cg1 \in genes1 : Key(cg1) = K
        homologous == {K \in keys : K \in DOMAIN parent2.conn_genes
                                    /\ is_same_innov(parent2.conn_genes[K], Gene1(K))}
    IN  {[K \in keys |->
            IF K \in homologous
            THEN ConnectionGene(K[1], K[2],
                     IF coin[K][1] THEN Gene1(K).weight ELSE parent2.conn_genes[K].weight,
                     IF coin[K][2] THEN Gene1(K).enabled ELSE parent2.conn_genes[K].enabled)
            ELSE Gene1(K)]
         : coin \in [homologous -> BOOLEAN \X BOOLEAN]}

\* the node genes a child inherits
InheritNodeGenes(parent1, parent2) ==
    [i \in DOMAIN parent1.node_genes |->
        IF i \in DOMAIN parent2.node_genes
        THEN NodeChild(parent1.node_genes[i], parent2.node_genes[i])
        ELSE parent1.node_genes[i]]

\* Chromosome._inherit_genes: the outcomes [c, err]
Base_inherit_genes(child, parent1, parent2) ==
    IF ~(parent1.fitness >= parent2.fitness)
    THEN {[c |-> child, err |-> "AssertionError"]}
    ELSE {[c |-> [child EXCEPT !.conn_genes = genes,
                               !.node_genes = InheritNodeGenes(parent1, parent2)],
           err |-> "none"] : genes \in InheritConnGenes(parent1, parent2)}

\* FFChromosome._inherit_genes: the outcomes [c, err]
FF_inherit_genes_OtherOrder(child, parent1, parent2) ==
    {IF b.err # "none" THEN b
     ELSE IF parent2.cls # "FFChromosome" THEN [c |-> b.c, err |-> "AttributeError"]
     ELSE LET c2 == [b.c EXCEPT !.node_order = parent2.node_order]
          IN  [c |-> c2, err |-> IF Len(c2.node_order) = NumHiddenGenes(c2)
                                 THEN "none" ELSE "AssertionError"]
     : b \in Base_inherit_genes(child, parent1, parent2)}
FF_inherit_genes(child, parent1, parent2) ==
    {IF b.err # "none" THEN b
     ELSE IF parent1.cls # "FFChromosome" THEN [c |-> b.c, err |-> "AttributeError"]
     ELSE LET c2 == [b.c EXCEPT !.node_order = parent1.node_order]
          IN  [c |-> c2, err |-> IF Len(c2.node_order) = NumHiddenGenes(c2)
                                 THEN "none" ELSE "AssertionError"]
     : b \in Base_inherit_genes(child, parent1, parent2)}

inherit_genes(child, parent1, parent2) ==
    IF child.cls = "FFChromosome" THEN FF_inherit_genes(child, parent1, parent2)
    ELSE Base_inherit_genes(child, parent1, parent2)

\* the error of the failed assertion of crossover: its message formats both
\* species ids with %d, which raises TypeError on None
SpeciesError(self, other) ==
    IF self.species_id = NoneValue \/ other.species_id = NoneValue
    THEN "TypeError" ELSE "AssertionError"

\* Chromosome.crossover: the outcomes [c, err, used], used = an id was drawn
crossover_ChildFirst(self, other, id) ==
    LET parent1 == IF FitterIsSelf(self, other) THEN self ELSE other
        parent2 == IF FitterIsSelf(self, other) THEN other ELSE self
        child == NewChromosome(self.cls, id, self.ID, other.ID)
    IN  IF self.species_id # other.species_id
        THEN {[c |-> self, err |-> SpeciesError(self, other), used |-> TRUE]}
        ELSE {[c |-> IF o.err = "none" THEN [o.c EXCEPT !.species_id = parent1.species_id]
                     ELSE o.c,
               err |-> o.err, used |-> TRUE]
              : o \in inherit_genes(child, parent1, parent2)}
crossover(self, other, id) ==
    IF self.species_id # other.species_id
    THEN {[c |-> self, err |-> SpeciesError(self, other), used |-> FALSE]}
    ELSE LET parent1 == IF FitterIsSelf(self, other) THEN self ELSE other
             parent2 == IF FitterIsSelf(self, other) THEN other ELSE self
             child == NewChromosome(self.cls, id, self.ID, other.ID)
         IN  {[c |-> IF o.err = "none" THEN [o.c EXCEPT !.species_id = parent1.species_id]
                     ELSE o.c,
               err |-> o.err, used |-> TRUE]
              : o \in inherit_genes(child, parent1, parent2)}

-----------------------------------------------------------------------------
(* Compatibility distance *)

RECURSIVE SumOver(_)
\* the sum of the values of a function with a finite domain
SumOver(f) ==
    IF DOMAIN f = {} THEN 0
    ELSE LET k == CHOOSE x \in DOMAIN f : TRUE
         IN  f[k] + SumOver(Del(f, k))

\* math.fabs(a - b)
Fabs_Signed(a, b) == a - b
Fabs(a, b) == IF a >= b THEN a - b ELSE b - a

\* the chromosome distance walks (chromo1) is self only when self is longer
LongerIsSelf(self, other) ==
    Cardinality(DOMAIN self.conn_genes) > Cardinality(DOMAIN other.conn_genes)

\* Chromosome.distance: [err, excess, disjoint, matching, weight_diff, num, den],
\* the distance returned being num / den
distance(self, other) ==
    LET chromo1 == IF LongerIsSelf(self, other) THEN self ELSE other
        chromo2 == IF LongerIsSelf(self, other) THEN other ELSE self
        keys1 == DOMAIN chromo1.conn_genes
        keys2 == DOMAIN chromo2.conn_genes
    IN  IF keys2 = {}
        THEN [err |-> "ValueError", excess |-> 0, disjoint |-> 0, matching |-> 0,
              weight_diff |-> 0, num |-> 0, den |-> 1]
        ELSE LET max_cg_chromo2 ==
                     CHOOSE g \in {chromo2.conn_genes[k] : k \in keys2} :
                         \A k \in keys2 : ~GeneGreater(chromo2.conn_genes[k], g)
                 homologous == {k \in keys1 : Key(chromo1.conn_genes[k]) \in keys2}
                 excess == Cardinality({k \in keys1 \ homologous :
                               GeneGreater(chromo1.conn_genes[k], max_cg_chromo2)})
                 matching == Cardinality(homologous)
                 disjoint == Cardinality(keys1 \ homologous) - excess
                             + (Cardinality(keys2) - matching)
                 weight_diff == SumOver([k \in homologous |->
                                   Fabs(chromo1.conn_genes[k].weight,
                                        chromo2.conn_genes[Key(chromo1.conn_genes[k])].weight)])
                 den == IF matching > 0 THEN matching ELSE 1
                 base == config.excess_coefficient * excess
                         + config.disjoint_coefficient * disjoint
             IN  [err |-> "none", excess |-> excess, disjoint |-> disjoint,
                  matching |-> matching, weight_diff |-> weight_diff,
                  num |-> base * den + (IF matching > 0
                                        THEN config.weight_coefficient * weight_diff ELSE 0),
                  den |-> den]

-----------------------------------------------------------------------------
(* The state machine *)

Configs(shapes, probs, coefs) ==
    {[input_nodes |-> sh[1], output_nodes |-> sh[2],
      prob_addnode |-> p[1], prob_addconn |-> p[2], prob_deleteconn |-> p[3],
      excess_coefficient |-> e[1], disjoint_coefficient |-> e[2],
      weight_coefficient |-> e[3]]
     : sh \in shapes, p \in probs, e \in coefs}

NoResult == [err |-> "none", excess |-> 0, disjoint |-> 0, matching |-> 0,
             weight_diff |-> 0, num |-> 0, den |-> 1]

Last(op, branch, err, a, b, draws, result) ==
    [op |-> op, branch |-> branch, err |-> err, a |-> a, b |-> b,
     draws |-> draws, result |-> result]

InitWith(cfgs) ==
    /\ next_id = 1
    /\ config \in cfgs
    /\ pop = <<>>
    /\ ops = 0
    /\ last = Last("init", "", "none", 0, 0, <<>>, NoResult)

Init == InitWith(Configs(Shapes, {DefaultProbs}, {DefaultCoefs}))

\* a factory call: the id is drawn, the chromosome is kept when no error is raised
Built(op, o) ==
    /\ next_id' = get_next_id(next_id)
    /\ pop' = IF o.err = "none" THEN Append(pop, o.c) ELSE pop
    /\ ops' = ops + 1
    /\ last' = Last(op, "", o.err, IF o.err = "none" THEN Len(pop) + 1 ELSE 0, 0,
                    <<>>, NoResult)
    /\ UNCHANGED config

DoCreateUnconnected ==
    \E cls \in Classes :
        Built("create_unconnected", [c |-> create_unconnected(cls, next_id), err |-> "none"])

DoCreateMinimallyConnected ==
    \E cls \in Classes : \E o \in create_minimally_connected(cls, next_id) :
        Built("create_minimally_connected", o)

DoCreateFullyConnected ==
    \E cls \in Classes : \E o \in create_fully_connected(cls, next_id) :
        Built("create_fully_connected", o)

NumHidden(c) == Len(c.node_genes) - Max(c.num_inputs, 0) - Max(c.num_outputs, 0)

\* chromosome i calls mutate()
DoMutate ==
    /\ \E i \in DOMAIN pop :
       \E run \in {<<MutateBranch(r1, r2, r3), MutateDraws(r1, r2, r3)>> :
                      r1 \in Draws, r2 \in Draws, r3 \in Draws} :
          /\ run[1] = "add_node" => NumHidden(pop[i]) < MaxHidden
          /\ \E o \in mutate(pop[i], run[1]) :
                /\ pop' = [pop EXCEPT ![i] = o.c]
                /\ last' = Last("mutate", run[1], o.err, i, 0, run[2], NoResult)
    /\ ops' = ops + 1
    /\ UNCHANGED <<next_id, config>>

(* A population: founders, their evaluation, breeding and speciation *)

CanBuild == ops < MaxOps /\ Len(pop) < MaxFounders

CreateUnconnected == CanBuild /\ DoCreateUnconnected

CreateMinimallyConnected == CanBuild /\ DoCreateMinimallyConnected

CreateFullyConnected == CanBuild /\ DoCreateFullyConnected

\* the species manager writes the fitness and species_id slots of the population
DoEvaluate(fitnesses, species) ==
    /\ pop # <<>>
    /\ \E f \in [DOMAIN pop -> fitnesses] : \E s \in [DOMAIN pop -> species] :
          pop' = [i \in DOMAIN pop |-> [pop[i] EXCEPT !.fitness = f[i], !.species_id = s[i]]]
    /\ last' = Last("evaluate", "", "none", 0, 0, <<>>, NoResult)
    /\ ops' = ops + 1
    /\ UNCHANGED <<next_id, config>>

Evaluate == ops < MaxOps /\ DoEvaluate(FitnessValues, SpeciesValues)

Mutate == ops < MaxOps /\ DoMutate

Crossover ==
    /\ ops < MaxOps /\ Len(pop) < MaxPop
    /\ \E i \in DOMAIN pop : \E j \in DOMAIN pop :
          /\ i # j
          /\ \E o \in crossover(pop[i], pop[j], next_id) :
                /\ next_id' = IF o.used THEN get_next_id(next_id) ELSE next_id
                /\ pop' = IF o.err = "none" THEN Append(pop, o.c) ELSE pop
                /\ last' = Last("crossover", "", o.err, i, j, <<>>, NoResult)
    /\ ops' = ops + 1
    /\ UNCHANGED config

Distance ==
    /\ ops < MaxOps
    /\ \E i \in DOMAIN pop : \E j \in DOMAIN pop :
          /\ i # j
          /\ last' = Last("distance", "", distance(pop[i], pop[j]).err, i, j, <<>>,
                          distance(pop[i], pop[j]))
    /\ ops' = ops + 1
    /\ UNCHANGED <<next_id, config, pop>>

Next ==
    \/ CreateUnconnected
    \/ CreateMinimallyConnected
    \/ CreateFullyConnected
    \/ Evaluate
    \/ Mutate
    \/ Crossover

Spec == Init /\ [][Next]_vars

(* One chromosome: a founder and the mutations of its lineage *)

InitMutate == InitWith(Configs(MutateShapes, ProbChoices, {DefaultCoefs}))

CanFound == ops < MaxMutateOps /\ pop = <<>>

FoundUnconnected == CanFound /\ DoCreateUnconnected

FoundMinimallyConnected == CanFound /\ DoCreateMinimallyConnected

FoundFullyConnected == CanFound /\ DoCreateFullyConnected

MutateFounder == ops < MaxMutateOps /\ DoMutate

NextMutate ==
    \/ FoundUnconnected
    \/ FoundMinimallyConnected
    \/ FoundFullyConnected
    \/ MutateFounder

SpecMutate == InitMutate /\ [][NextMutate]_vars

(* Speciation: founders, their mutations, and the distances between them *)

InitDistance == InitWith(Configs({<<2, 1>>}, {DefaultProbs}, CoefChoices))

NextDistance ==
    \/ CreateUnconnected
    \/ CreateMinimallyConnected
    \/ CreateFullyConnected
    \/ MutateFounder
    \/ Distance

SpecDistance == InitDistance /\ [][NextDistance]_vars

(* Breeding across species: founders, their speciation, and crossover *)

Speciate == ops < MaxOps /\ DoEvaluate({1}, SpeciesChoices)

NextSpecies ==
    \/ CreateUnconnected
    \/ CreateFullyConnected
    \/ Speciate
    \/ Crossover

SpecSpecies == Init /\ [][NextSpecies]_vars

(* The factories under any configuration *)

InitAnyConfig == InitWith(Configs(AnyShapes, {DefaultProbs}, {DefaultCoefs}))

NextFactories ==
    \/ CreateUnconnected
    \/ CreateMinimallyConnected
    \/ CreateFullyConnected

SpecAnyConfig == InitAnyConfig /\ [][NextFactories]_vars

-----------------------------------------------------------------------------
(* Properties *)

Chromosomes == {pop[i] : i \in DOMAIN pop}
FFChromosomes == {c \in Chromosomes : c.cls = "FFChromosome"}
Genes(c) == {c.conn_genes[k] : k \in DOMAIN c.conn_genes}
IsHidden(c, id) == TypeAt(c, id) = "HIDDEN"

\* the feedforward predicate of a connection gene
Feedforward(c, cg) ==
    \/ TypeAt(c, cg.innodeid) = "INPUT"
    \/ TypeAt(c, cg.outnodeid) = "OUTPUT"
    \/ /\ IndexOf(c.node_order, cg.innodeid) >= 0
       /\ IndexOf(c.node_order, cg.outnodeid) >= 0
       /\ IndexOf(c.node_order, cg.innodeid) < IndexOf(c.node_order, cg.outnodeid)

\* C1: in a feedforward chromosome built by a factory and mutated any number of
\* times, every connection gene, enabled or disabled, satisfies the feedforward
\* predicate: its source is an input, its target is an output, or its source
\* is strictly before its target in the node order.
C1_FeedforwardClosure ==
    \A c \in FFChromosomes : \A cg \in Genes(c) : Feedforward(c, cg)

\* a mutated feedforward chromosome with two hidden nodes, a connection between
\* them and a disabled (split) connection
C1_Witness ==
    /\ last.op = "mutate" /\ last.err = "none"
    /\ \E c \in FFChromosomes :
          /\ Len(c.node_order) = 2
          /\ \E cg \in Genes(c) : IsHidden(c, cg.innodeid) /\ IsHidden(c, cg.outnodeid)
          /\ \E cg \in Genes(c) : ~cg.enabled

\* C2: add-node on a chromosome without connection genes is a silent no-op:
\* no error is raised (and the chromosome, still without connection genes,
\* is unchanged).
C2_AddNodeOnEmptyIsSilent ==
    (last.op = "mutate" /\ last.branch = "add_node"
        /\ DOMAIN pop[last.a].conn_genes = {})
    => last.err = "none"

\* C3 as stated: mutate makes one draw and compares that value with every
\* threshold, so add-connection is taken only on a draw in
\* [prob_addnode, prob_addconn) and delete-connection only on a draw at least
\* both earlier thresholds and below prob_deleteconn.
C3_OneSharedDraw ==
    last.op = "mutate" =>
        /\ Len(last.draws) = 1
        /\ last.branch = "add_connection" =>
              last.draws[1] >= config.prob_addnode /\ last.draws[1] < config.prob_addconn
        /\ last.branch = "delete_connection" =>
              /\ last.draws[1] >= config.prob_addnode
              /\ last.draws[1] >= config.prob_addconn
              /\ last.draws[1] < config.prob_deleteconn

\* C3 amended: mutate makes a fresh draw for every threshold it tests, in the
\* order add-node, add-connection, delete-connection, and takes the first
\* branch whose own draw is below its threshold: add-connection exactly when
\* the first draw is >= prob_addnode and the second < prob_addconn,
\* delete-connection exactly when the first two draws are >= their thresholds
\* and the third < prob_deleteconn.
C3_FreshDrawPerTest ==
    last.op = "mutate" =>
        LET d == last.draws
            n == Len(d)
        IN  /\ last.branch = "add_node" <=> (n = 1 /\ d[1] < config.prob_addnode)
            /\ last.branch = "add_connection" <=>
                  (n = 2 /\ d[1] >= config.prob_addnode /\ d[2] < config.prob_addconn)
            /\ last.branch = "delete_connection" <=>
                  (n = 3 /\ d[1] >= config.prob_addnode /\ d[2] >= config.prob_addconn
                         /\ d[3] < config.prob_deleteconn)
            /\ last.branch = "weights" <=>
                  (n = 3 /\ d[1] >= config.prob_addnode /\ d[2] >= config.prob_addconn
                         /\ d[3] >= config.prob_deleteconn)

\* add-connection taken although the first draw is not below prob_addconn,
\* and it added a connection gene
C3_Witness ==
    /\ last.op = "mutate" /\ last.branch = "add_connection"
    /\ last.draws[1] >= config.prob_addconn
    /\ last.draws[2] < config.prob_addconn
    /\ DOMAIN pop[last.a].conn_genes # {}

\* the parents and the child of the crossover that has just returned
Crossed == last.op = "crossover" /\ last.err = "none"
CrossSelf == pop[last.a]
CrossOther == pop[last.b]
CrossChild == pop[Len(pop)]
Keys(c) == DOMAIN c.conn_genes

\* C4 as stated: when both parents of self.crossover(other) have the same
\* fitness, the child has the connection keys and the node-gene count of self.
C4_TieFavoursSelf ==
    (Crossed /\ CrossSelf.fitness = CrossOther.fitness) =>
        /\ Keys(CrossChild) = Keys(CrossSelf)
        /\ Len(CrossChild.node_genes) = Len(CrossSelf.node_genes)

\* C4 amended: when both parents of self.crossover(other) have the same
\* fitness, other is treated as the fitter parent: the child has the
\* connection keys and the node-gene count of other.
C4_TieFavoursOther ==
    (Crossed /\ CrossSelf.fitness = CrossOther.fitness) =>
        /\ Keys(CrossChild) = Keys(CrossOther)
        /\ Len(CrossChild.node_genes) = Len(CrossOther.node_genes)

\* a crossover of two evaluated parents of equal fitness that differ in their
\* keys and in their node-gene counts
C4_Witness ==
    /\ Crossed
    /\ CrossSelf.fitness = CrossOther.fitness /\ CrossSelf.fitness # NoneValue
    /\ Keys(CrossSelf) # Keys(CrossOther)
    /\ Len(CrossSelf.node_genes) # Len(CrossOther.node_genes)

\* C5: distance is symmetric: for chromosomes A and B with at least one
\* connection gene each, A.distance(B) = B.distance(A) (as fractions).
C5_DistanceSymmetric ==
    (last.op = "distance" /\ Keys(pop[last.a]) # {} /\ Keys(pop[last.b]) # {}) =>
        LET back == distance(pop[last.b], pop[last.a])
        IN  last.result.num * back.den = back.num * last.result.den

\* C6: the ids of the chromosomes built in a process are strictly increasing
\* in the order of construction (so pairwise distinct), every id handed out is
\* below the counter, and a crossover child's id is above both parents' ids.
C6_IdsStrictlyIncrease ==
    /\ \A i, j \in DOMAIN pop : i < j => pop[i].ID < pop[j].ID
    /\ \A c \in Chromosomes : c.ID < next_id /\ c.parent1_id < c.ID /\ c.parent2_id < c.ID
    /\ Crossed => /\ CrossChild.ID > CrossSelf.ID /\ CrossChild.ID > CrossOther.ID
                  /\ CrossChild.parent1_id = CrossSelf.ID
                  /\ CrossChild.parent2_id = CrossOther.ID

\* a crossover child beside founders of both classes
C6_Witness ==
    /\ Crossed
    /\ \E c \in Chromosomes : c.cls = "Chromosome" /\ c.parent1_id = 0
    /\ \E c \in Chromosomes : c.cls = "FFChromosome" /\ c.parent1_id = 0

\* C7: in every chromosome the node gene at position k has id k; positions
\* 1..num_inputs are inputs, the next num_outputs are outputs, every later
\* one is hidden.
C7_NodeIdDensity ==
    \A c \in Chromosomes : \A k \in DOMAIN c.node_genes :
        /\ c.node_genes[k].id = k
        /\ c.node_genes[k].type =
              IF k <= c.num_inputs THEN "INPUT"
              ELSE IF k <= c.num_inputs + c.num_outputs THEN "OUTPUT" ELSE "HIDDEN"

\* a crossover child that has inherited a hidden node and gained another by
\* its own add-node mutation
C7_Witness ==
    /\ last.op = "mutate" /\ last.branch = "add_node" /\ last.err = "none"
    /\ pop[last.a].parent1_id # 0
    /\ NumHidden(pop[last.a]) = 2

\* C8: the child of a crossover has exactly the connection keys of the fitter
\* parent (all of them, and none that only the less fit parent has) and as
\* many node genes as the fitter parent.
C8_ChildTakesFitterParentsGenes ==
    Crossed =>
        \A fit, less \in {CrossSelf, CrossOther} :
            fit.fitness > less.fitness =>
                /\ \A k \in Keys(fit) : k \in Keys(CrossChild)
                /\ \A k \in Keys(less) \ Keys(fit) : k \notin Keys(CrossChild)
                /\ Keys(CrossChild) \subseteq Keys(fit)
                /\ Len(CrossChild.node_genes) = Len(fit.node_genes)

\* a crossover whose fitter parent has fewer node genes than the other, which
\* has keys of its own
C8_Witness ==
    /\ Crossed
    /\ \E fit, less \in {CrossSelf, CrossOther} :
          /\ fit.fitness > less.fitness
          /\ Len(fit.node_genes) < Len(less.node_genes)
          /\ Keys(less) \ Keys(fit) # {}
          /\ Keys(fit) # {}

\* C9: a factory called with input_nodes < 1 or output_nodes < 1 raises an
\* error and returns no chromosome.
C9_FactoriesRejectBadCounts ==
    (config.input_nodes < 1 \/ config.output_nodes < 1) =>
        /\ pop = <<>>
        /\ last.op # "init" => last.err # "none"

\* the layer of a node: inputs, then the hidden nodes in node order, then outputs
Rank(c, id) ==
    IF TypeAt(c, id) = "INPUT" THEN 0
    ELSE IF TypeAt(c, id) = "OUTPUT" THEN Len(c.node_order) + 1
    ELSE IndexOf(c.node_order, id) + 1

\* C10: in a feedforward chromosome the connection genes form a layered DAG:
\* no gene has an output as its source, an input as its target or the same
\* node at both ends, and every gene leads from a lower layer (inputs, hidden
\* nodes in node order, outputs) to a strictly higher one.
C10_LayeredDag ==
    \A c \in FFChromosomes : \A cg \in Genes(c) :
        /\ TypeAt(c, cg.innodeid) \in {"INPUT", "HIDDEN"}
        /\ TypeAt(c, cg.outnodeid) \in {"HIDDEN", "OUTPUT"}
        /\ cg.innodeid # cg.outnodeid
        /\ Rank(c, cg.innodeid) < Rank(c, cg.outnodeid)

\* add-connection has just added a gene to a feedforward crossover child
\* that has no hidden node
C10_Witness ==
    /\ last.op = "mutate" /\ last.branch = "add_connection" /\ last.err = "none"
    /\ pop[last.a].cls = "FFChromosome"
    /\ pop[last.a].parent1_id # 0
    /\ pop[last.a].node_order = <<>>
    /\ \E cg \in Genes(pop[last.a]) : cg.enabled

\* C11: in every chromosome of either class, after any sequence of mutations
\* and crossovers, every connection gene is stored under the key equal to
\* its own (source, target) pair, so no two connection genes share a pair.
C11_KeysAreOwnPairs ==
    \A c \in Chromosomes :
        /\ \A k \in Keys(c) : Key(c.conn_genes[k]) = k
        /\ \A k1, k2 \in Keys(c) :
              Key(c.conn_genes[k1]) = Key(c.conn_genes[k2]) => k1 = k2

\* a crossover child with at least three connection genes, one of them
\* inherited disabled, has just been mutated
C11_Witness ==
    /\ last.op = "mutate" /\ last.err = "none"
    /\ pop[last.a].parent1_id # 0
    /\ Cardinality(Keys(pop[last.a])) >= 3
    /\ \E cg \in Genes(pop[last.a]) : ~cg.enabled

\* the two chromosomes of the distance call that has just returned
DistSelf == pop[last.a]
DistOther == pop[last.b]

\* C12: for two chromosomes with the same, non-empty, set of connection keys,
\* distance counts no excess and no disjoint gene, counts every key as
\* matching, and returns weight_coefficient * (the sum over the keys of the
\* absolute weight differences) / (the number of keys).
C12_SameTopologyDistance ==
    (last.op = "distance" /\ Keys(DistSelf) = Keys(DistOther) /\ Keys(DistSelf) # {}) =>
        LET n == Cardinality(Keys(DistSelf))
            Diff(k) == DistSelf.conn_genes[k].weight - DistOther.conn_genes[k].weight
            total == SumOver([k \in Keys(DistSelf) |-> IF Diff(k) < 0 THEN -Diff(k) ELSE Diff(k)])
        IN  /\ last.result.err = "none"
            /\ last.result.excess = 0
            /\ last.result.disjoint = 0
            /\ last.result.matching = n
            /\ last.result.num * n = config.weight_coefficient * total * last.result.den

\* distance between two chromosomes with the same two keys, of which one
\* gene is heavier in self and the other heavier in other, under a weight
\* coefficient other than 1
C12_Witness ==
    /\ last.op = "distance"
    /\ Keys(DistSelf) = Keys(DistOther)
    /\ config.weight_coefficient = 2
    /\ \E k1, k2 \in Keys(DistSelf) :
          /\ DistSelf.conn_genes[k1].weight < DistOther.conn_genes[k1].weight
          /\ DistSelf.conn_genes[k2].weight > DistOther.conn_genes[k2].weight

\* C13: with prob_addnode = 1.0, every mutate() call on a chromosome that
\* holds a connection gene takes the add-node branch without error, adds
\* exactly one node gene, and adds exactly the two keys (source, new node)
\* and (new node, target) of one of its connections, both absent before; the
\* chromosome still holds a connection gene, so the call can be repeated.
C13_AddNodeGrowsByOne ==
    [][(last'.op = "mutate" /\ ops' = ops + 1 /\ config.prob_addnode = 2
           /\ Keys(pop[last'.a]) # {}) =>
        LET before == pop[last'.a]
            after == pop'[last'.a]
            new == Len(before.node_genes) + 1
        IN  /\ last'.branch = "add_node" /\ last'.err = "none"
            /\ Len(after.node_genes) = Len(before.node_genes) + 1
            /\ \E k \in Keys(before) :
                  /\ <<k[1], new>> \notin Keys(before)
                  /\ <<new, k[2]>> \notin Keys(before)
                  /\ Keys(after) = Keys(before) \cup {<<k[1], new>>, <<new, k[2]>>}
            /\ Cardinality(Keys(after)) = Cardinality(Keys(before)) + 2]_vars

\* under prob_addnode = 1.0 a second add-node in a row has split a connection
\* that the first one created
C13_Witness ==
    /\ config.prob_addnode = 2
    /\ last.op = "mutate" /\ last.branch = "add_node" /\ last.err = "none"
    /\ NumHidden(pop[last.a]) = 2
    /\ \E cg \in Genes(pop[last.a]) :
          IsHidden(pop[last.a], cg.innodeid) /\ IsHidden(pop[last.a], cg.outnodeid)

\* C14: a crossover of two chromosomes whose species ids differ raises an
\* error before a child is built: the id counter keeps its value and the
\* population, both parents' genes included, is unchanged.
C14_SpeciesMismatchFailsFirst ==
    [][(last'.op = "crossover" /\ ops' = ops + 1
           /\ pop[last'.a].species_id # pop[last'.b].species_id) =>
        /\ last'.err \in {"AssertionError", "TypeError"}
        /\ next_id' = next_id
        /\ pop' = pop]_vars

\* a crossover of two evaluated parents of different species has failed
C14_Witness ==
    /\ last.op = "crossover" /\ last.err = "AssertionError"
    /\ pop[last.a].species_id # NoneValue /\ pop[last.b].species_id # NoneValue
    /\ pop[last.a].species_id # pop[last.b].species_id
    /\ Keys(pop[last.a]) # {}

\* C15: for input_nodes >= 1 and output_nodes >= 1, create_fully_connected
\* returns a chromosome with input_nodes + output_nodes node genes and
\* input_nodes * output_nodes connection genes, whose keys are exactly the
\* pairs (i, o) with i in 1..input_nodes and o in
\* input_nodes+1..input_nodes+output_nodes.
C15_FullyConnectedShape ==
    (last.op = "create_fully_connected"
        /\ config.input_nodes >= 1 /\ config.output_nodes >= 1) =>
        LET ni == config.input_nodes
            no == config.output_nodes
        IN  /\ last.err = "none"
            /\ Len(pop[last.a].node_genes) = ni + no
            /\ Cardinality(Keys(pop[last.a])) = ni * no
            /\ Keys(pop[last.a]) = (1 .. ni) \X ((ni + 1) .. (ni + no))
            /\ \A k \in Keys(pop[last.a]) : Key(pop[last.a].conn_genes[k]) = k

\* create_fully_connected has returned a chromosome for two inputs and two
\* outputs
C15_Witness ==
    /\ last.op = "create_fully_connected" /\ last.err = "none"
    /\ config.input_nodes = 2 /\ config.output_nodes = 2
    /\ Keys(pop[last.a]) # {}

\* the pairs (source, target) a feedforward chromosome may still gain: source
\* an input or hidden node, target not an input, feedforward, and absent
FreeLegalPairs(c) ==
    {p \in (DOMAIN c.node_genes) \X (DOMAIN c.node_genes) :
        /\ TypeAt(c, p[1]) \in {"INPUT", "HIDDEN"}
        /\ TypeAt(c, p[2]) # "INPUT"
        /\ Feedforward(c, ConnectionGene(p[1], p[2], 1, TRUE))
        /\ p \notin Keys(c)}

\* C16: in feedforward add-connection the computed number of remaining
\* connections equals the number of free legal pairs; when it is positive
\* exactly one enabled gene is inserted, under such a pair as its key, and
\* nothing else changes; when it is zero the chromosome is unchanged.  No
\* error is raised.
C16_FFAddConnectionFillsFreePair ==
    [][(last'.op = "mutate" /\ ops' = ops + 1 /\ last'.branch = "add_connection"
           /\ pop[last'.a].cls = "FFChromosome") =>
        LET before == pop[last'.a]
            after == pop'[last'.a]
            free == FreeLegalPairs(before)
        IN  /\ FFRemaining(before) = Cardinality(free)
            /\ last'.err = "none"
            /\ IF free = {} THEN after = before
               ELSE \E p \in free :
                      /\ Keys(after) = Keys(before) \cup {p}
                      /\ after.conn_genes[p].enabled
                      /\ Key(after.conn_genes[p]) = p
                      /\ \A k \in Keys(before) : after.conn_genes[k] = before.conn_genes[k]
                      /\ after.node_genes = before.node_genes
                      /\ after.node_order = before.node_order]_vars

\* add-connection has filled the last free pair of a feedforward chromosome
\* with two hidden nodes: a gene between the two hidden nodes or beside them
C16_Witness ==
    /\ last.op = "mutate" /\ last.branch = "add_connection" /\ last.err = "none"
    /\ pop[last.a].cls = "FFChromosome"
    /\ NumHidden(pop[last.a]) = 2
    /\ FreeLegalPairs(pop[last.a]) = {}
    /\ \A cg \in Genes(pop[last.a]) : IsHidden(pop[last.a], cg.innodeid) => cg.enabled

\* the ids of the hidden node genes of a chromosome
HiddenIds(c) == {c.node_genes[k].id : k \in {j \in DOMAIN c.node_genes : c.node_genes[j].type = "HIDDEN"}}

\* C17: in a feedforward chromosome, after any mutations and crossovers, the
\* node order holds every hidden node id exactly once and nothing else, so
\* its length is the number of hidden node genes; the length assertions of
\* add-node and of inherit-genes never fail.
C17_NodeOrderIsHiddenNodes ==
    /\ \A c \in FFChromosomes :
          /\ Range(c.node_order) = HiddenIds(c)
          /\ \A i, j \in DOMAIN c.node_order : c.node_order[i] = c.node_order[j] => i = j
          /\ Len(c.node_order) = NumHiddenGenes(c)
    /\ last.op = "mutate" => last.err # "AssertionError"
    /\ (last.op = "crossover" /\ CrossSelf.species_id = CrossOther.species_id) =>
          last.err # "AssertionError"

\* a feedforward child of two feedforward parents with different numbers of
\* hidden nodes, which has inherited a hidden node and its place in the order
C17_Witness ==
    /\ Crossed
    /\ CrossChild.cls = "FFChromosome" /\ CrossOther.cls = "FFChromosome"
    /\ Len(CrossSelf.node_order) # Len(CrossOther.node_order)
    /\ Len(CrossChild.node_order) >= 1

\* the pairs (any node, non-input node) a general chromosome does not hold
FreePairs(c) ==
    {p \in (DOMAIN c.node_genes) \X (DOMAIN c.node_genes) :
        TypeAt(c, p[2]) # "INPUT" /\ p \notin Keys(c)}

\* C18: add-connection of the general chromosome inserts exactly one enabled
\* gene, under a previously absent pair (any node, non-input node) as its
\* key, whenever such a pair is absent, and leaves the chromosome unchanged
\* when none is; it alters no existing connection gene and no node gene.
C18_AddConnectionFillsFreePair ==
    [][(last'.op = "mutate" /\ ops' = ops + 1 /\ last'.branch = "add_connection"
           /\ pop[last'.a].cls = "Chromosome") =>
        LET before == pop[last'.a]
            after == pop'[last'.a]
            free == FreePairs(before)
        IN  /\ last'.err = "none"
            /\ after.node_genes = before.node_genes
            /\ \A k \in Keys(before) :
                  k \in Keys(after) /\ after.conn_genes[k] = before.conn_genes[k]
            /\ IF free = {} THEN after = before
               ELSE \E p \in free :
                      /\ Keys(after) = Keys(before) \cup {p}
                      /\ after.conn_genes[p].enabled
                      /\ Key(after.conn_genes[p]) = p]_vars

\* add-connection on a general chromosome that holds a hidden node and a
\* recurrent gene: one that leaves an output node or loops on its own node
C18_Witness ==
    /\ last.op = "mutate" /\ last.branch = "add_connection" /\ last.err = "none"
    /\ pop[last.a].cls = "Chromosome"
    /\ NumHidden(pop[last.a]) >= 1
    /\ \E k \in Keys(pop[last.a]) : TypeAt(pop[last.a], k[1]) = "OUTPUT" \/ k[1] = k[2]

\* C19: delete-connection removes exactly one connection gene when the
\* chromosome holds more than one, and changes nothing when it holds one or
\* none; it never touches the node genes or the remaining connection genes.
\* So no mutate() call takes a chromosome that holds a connection gene to one
\* that holds none.
C19_DeleteKeepsLastGene ==
    [][(last'.op = "mutate" /\ ops' = ops + 1) =>
        LET before == pop[last'.a]
            after == pop'[last'.a]
        IN  /\ Keys(before) # {} => Keys(after) # {}
            /\ last'.branch = "delete_connection" =>
                  /\ last'.err = "none"
                  /\ after.node_genes = before.node_genes
                  /\ after.node_order = before.node_order
                  /\ IF Cardinality(Keys(before)) > 1
                     THEN \E k \in Keys(before) :
                            /\ Keys(after) = Keys(before) \ {k}
                            /\ \A j \in Keys(after) : after.conn_genes[j] = before.conn_genes[j]
                     ELSE after = before]_vars

\* delete-connection on a chromosome with a hidden node that is down to its
\* last connection gene
C19_Witness ==
    /\ last.op = "mutate" /\ last.branch = "delete_connection" /\ last.err = "none"
    /\ NumHidden(pop[last.a]) >= 1
    /\ Cardinality(Keys(pop[last.a])) = 1

\* C20: distance returns a number without raising an error for every pair of
\* chromosomes of one configuration, also when the chromosome with the fewer
\* (or as many) connection genes has none; then no gene matches and the
\* weight term is zero.
C20_DistanceNeverRaises ==
    last.op = "distance" =>
        /\ last.result.err = "none"
        /\ (Keys(DistSelf) = {} \/ Keys(DistOther) = {}) =>
              /\ last.result.matching = 0
              /\ last.result.weight_diff = 0

====
